---------------------------- MODULE Spec2Model ----------------------------
(***************************************************************************)
(* A model of the administrative-area service (main.go): the GeoPackage    *)
(* envelope decoder, the reverse lookup over bounding-box candidates, the  *)
(* hierarchy functions detectLevel / childrenOf, and the /latlng handler   *)
(* with its elevation cache and external elevation provider.               *)
(*                                                                         *)
(* Server.roundPlaces is 4, the value newServer takes with ROUND_PLACES    *)
(* unset.  Coordinates are fixed-point integers whose unit is 1e-5 degree, *)
(* one decimal place finer than roundPlaces, so rounding to roundPlaces is *)
(* rounding to a multiple of 10.  Byte slices are sequences of 0..255.     *)
(***************************************************************************)
EXTENDS Integers, Sequences, FiniteSets, TLC

VARIABLES
    table,         \* rows of the read-only region table joined with its rtree
    elevations,    \* rows of the elevations table (gid PRIMARY KEY, elevation)
    googleAPIKey,  \* Server.googleAPIKey
    reqs,          \* the /latlng requests, in the order they arrived
    provided,      \* history: <<gid, v>> for every successful provider answer
    call,          \* a direct call of one function: [fn, in, out, done]
    db             \* the dataset pool of Server.db: who holds its one
                   \* connection (0: nobody) and who is blocked waiting for it

vars == <<table, elevations, googleAPIKey, reqs, provided, call, db>>

\* the pool with its connection idle and nobody waiting
FreePool == [holder |-> 0, waiting |-> {}]

\* db.conn(): take the idle connection, or join the blocked statements
connAcquire(pool, i) ==
    IF pool.holder = 0 THEN [pool EXCEPT !.holder = i]
    ELSE [pool EXCEPT !.waiting = @ \cup {i}]

\* a variant in which closing the cursor keeps the connection
releaseConn_Leak(pool, i) == { pool }

\* the pools after holder i's cursor is closed: the connection is idle, or
\* one of the blocked statements has it
releaseConn(pool, i) ==
    IF pool.waiting = {} THEN { [pool EXCEPT !.holder = 0] }
    ELSE { [holder |-> q, waiting |-> pool.waiting \ {q}] : q \in pool.waiting }

\* the statement of request i has the connection and is not blocked
Granted(i) == db.holder = i /\ i \notin db.waiting

NULL == "<NULL>"
Nil == "<nil>"

Min(a, b) == IF a < b THEN a ELSE b

(***************************************************************************)
(* Bounds of the model.                                                    *)
(***************************************************************************)
MaxBlobLen == 74

(***************************************************************************)
(* GeoPackage binary header -> WKB (gpkgToWKB).                            *)
(***************************************************************************)
Pow2(n) == 2 ^ n

\* (flags >> 1) & 0x07
EnvIndicator(flags) == (flags \div 2) % 8

\* the switch on env: the number of 8-byte envelope elements
EnvCount(env) ==
    CASE env = 0 -> 0
      [] env = 1 -> 4
      [] env \in {2, 3} -> 6
      [] env = 4 -> 8
      [] OTHER -> 0

\* int32(binary.BigEndian.Uint32(b[4:8])) and its little-endian twin: the
\* two's complement value, computed from a signed top byte so that every
\* intermediate value stays within 32 bits
SignedByte(x) == IF x >= 128 THEN x - 256 ELSE x

Int32BE(b) == SignedByte(b[5]) * Pow2(24) + b[6] * Pow2(16) + b[7] * Pow2(8) + b[8]
Int32LE(b) == SignedByte(b[8]) * Pow2(24) + b[7] * Pow2(16) + b[6] * Pow2(8) + b[5]

ResolveSrid(b) ==
    LET srsBE == Int32BE(b)
        srsLE == Int32LE(b)
    IN  IF srsBE < -1 \/ srsBE > 1000000 THEN srsLE ELSE srsBE

\* b[offset:] of a Go slice (0-based offset) on a 1-based sequence
SliceFrom(b, offset) == SubSeq(b, offset + 1, Len(b))

\* (nil, 0, err): a nil slice is the empty sequence
GpkgFail(msg) == [wkb |-> <<>>, srid |-> 0, err |-> msg]

\* a variant of gpkgToWKB that accepts a blob ending right after its header
gpkgToWKB_NoPayloadByte(b) ==
    IF Len(b) < 8 THEN GpkgFail("geom too short")
    ELSE IF b[1] # 71 \/ b[2] # 80 THEN [wkb |-> b, srid |-> 0, err |-> Nil]
    ELSE LET offset == 8 + EnvCount(EnvIndicator(b[4])) * 8
         IN  IF Len(b) < offset
             THEN GpkgFail("invalid gpkg header/envelope")
             ELSE [wkb |-> SliceFrom(b, offset), srid |-> ResolveSrid(b), err |-> Nil]

gpkgToWKB(b) ==
    IF Len(b) < 8 THEN GpkgFail("geom too short")
    ELSE IF b[1] # 71 \/ b[2] # 80 THEN [wkb |-> b, srid |-> 0, err |-> Nil]
    ELSE LET offset == 8 + EnvCount(EnvIndicator(b[4])) * 8
         IN  IF Len(b) < offset + 1
             THEN GpkgFail("invalid gpkg header/envelope")
             ELSE [wkb |-> SliceFrom(b, offset), srid |-> ResolveSrid(b), err |-> Nil]

(***************************************************************************)
(* Inputs of the decoder: blobs of every length up to MaxBlobLen, with and *)
(* without the magic, every envelope indicator, both byte-order bits, and  *)
(* a spatial-reference id stored big-endian, little-endian or as -1.  The  *)
(* bytes after the header are tagged with their position.                  *)
(***************************************************************************)
SridBytes == { <<0, 0, 16, 230>>, <<230, 16, 0, 0>>, <<255, 255, 255, 255>> }
MagicBytes == { <<71, 80>>, <<71, 88>>, <<0, 80>> }
FlagBytes == { env * 2 + bo : env \in 0..7, bo \in {0, 1} } \cup { 32 + 2 }

MkBlob(n, magic, flags, srid) ==
    [i \in 1..n |->
        CASE i \in {1, 2} -> magic[i]
          [] i = 3 -> 0
          [] i = 4 -> flags
          [] i \in 5..8 -> srid[i - 4]
          [] OTHER -> (i * 3) % 256]

GpkgInputs ==
    { MkBlob(n, m, f, s) : n \in 0..MaxBlobLen, m \in MagicBytes,
                           f \in FlagBytes, s \in SridBytes }

Idle == [fn |-> "idle", in |-> Nil, out |-> Nil, done |-> FALSE]

InitGpkg ==
    /\ table = <<>>
    /\ elevations = {}
    /\ googleAPIKey = ""
    /\ reqs = <<>>
    /\ provided = {}
    /\ call \in { [fn |-> "gpkgToWKB", in |-> b, out |-> Nil, done |-> FALSE] : b \in GpkgInputs }
    /\ db = FreePool

CallGpkgToWKB ==
    /\ call.fn = "gpkgToWKB"
    /\ ~call.done
    /\ call' = [call EXCEPT !.out = gpkgToWKB(call.in), !.done = TRUE]
    /\ UNCHANGED <<table, elevations, googleAPIKey, reqs, provided, db>>

NextGpkg == CallGpkgToWKB

SpecGpkg == InitGpkg /\ [][NextGpkg]_vars

(***************************************************************************)
(* Strings: strings.TrimSpace, strings.Contains, and SQLite's NOCASE order. *)
(***************************************************************************)
CharAt(s, i) == SubSeq(s, i, i)

\* unicode.IsSpace, as strings.TrimSpace uses it: tab, line feed, vertical
\* tab, form feed, carriage return, space, U+0085, U+00A0 and U+1680.  (The
\* space separators from U+2000 on cannot be written in a string here, so
\* no string of the model holds one.)
IsSpace(c) == c \in {" ", "\t", "\n", "\r", "\f", "", "", " ", " "}

RECURSIVE TrimLeft(_)
TrimLeft(s) ==
    IF Len(s) > 0 /\ IsSpace(CharAt(s, 1)) THEN TrimLeft(SubSeq(s, 2, Len(s))) ELSE s

RECURSIVE TrimRight(_)
TrimRight(s) ==
    IF Len(s) > 0 /\ IsSpace(CharAt(s, Len(s)))
    THEN TrimRight(SubSeq(s, 1, Len(s) - 1))
    ELSE s

TrimSpace(s) == TrimRight(TrimLeft(s))

Contains(s, sub) ==
    \E i \in 1..(Len(s) - Len(sub) + 1) : SubSeq(s, i, i + Len(sub) - 1) = sub

\* the characters the model's strings use, in ASCII order
Ascii == " .0123456789ABCDEFGHIJKLMNOPQRSTUVWXYZ_abcdefghijklmnopqrstuvwxyz"
Uppers == "ABCDEFGHIJKLMNOPQRSTUVWXYZ"
Lowers == "abcdefghijklmnopqrstuvwxyz"

CharCode(c) == CHOOSE i \in 1..Len(Ascii) : CharAt(Ascii, i) = c

\* NOCASE folds the 26 upper-case ASCII letters to lower case
FoldChar(c) ==
    IF \E i \in 1..26 : CharAt(Uppers, i) = c
    THEN CharAt(Lowers, CHOOSE i \in 1..26 : CharAt(Uppers, i) = c)
    ELSE c

RECURSIVE NoCaseLeq(_, _)
NoCaseLeq(a, b) ==
    IF Len(a) = 0 THEN TRUE
    ELSE IF Len(b) = 0 THEN FALSE
    ELSE LET ca == CharCode(FoldChar(CharAt(a, 1)))
             cb == CharCode(FoldChar(CharAt(b, 1)))
         IN  IF ca # cb THEN ca < cb
             ELSE NoCaseLeq(SubSeq(a, 2, Len(a)), SubSeq(b, 2, Len(b)))

\* ORDER BY ... COLLATE NOCASE: NULL sorts before every text value
OrderLeq(a, b) ==
    IF a = NULL THEN TRUE ELSE IF b = NULL THEN FALSE ELSE NoCaseLeq(a, b)

(***************************************************************************)
(* The hierarchy: levelNameMap, detectLevel, childrenOf.                   *)
(* A row is [gid, name, blob, box]: gid[l + 1] and name[l + 1] are the     *)
(* columns GID_l and NAME_l (text or NULL), box is the row's rtree entry.  *)
(***************************************************************************)
Levels == 0..5

\* levelName[i] of the map returned by levelNameMap(); a missing key reads
\* as the zero value ""
levelNameMap(i) ==
    CASE i = 0 -> "LEVEL_UNSPECIFIED"
      [] i = 1 -> "PROVINCE"
      [] i = 2 -> "CITY"
      [] i = 3 -> "DISTRICT"
      [] i = 4 -> "VILLAGE"
      [] OTHER -> ""

\* SELECT 1 FROM table WHERE GID_lvl = ? LIMIT 1 returns a row
ProbeLevel(T, lvl, gid) ==
    \E k \in 1..Len(T) : T[k].gid[lvl + 1] # NULL /\ T[k].gid[lvl + 1] = gid

ErrNotFoundAnyLevel == "gid not found in any level"

\* a variant of detectLevel that probes from level 5 downwards
detectLevel_Descending(T, gid) ==
    IF \E lvl \in Levels : ProbeLevel(T, lvl, gid)
    THEN [level |-> CHOOSE lvl \in Levels :
                        /\ ProbeLevel(T, lvl, gid)
                        /\ \A m \in Levels : ProbeLevel(T, m, gid) => m <= lvl,
          err |-> Nil]
    ELSE [level |-> 0, err |-> ErrNotFoundAnyLevel]

RECURSIVE DetectFrom(_, _, _)
DetectFrom(T, gid, lvl) ==
    IF lvl > 5 THEN [level |-> 0, err |-> ErrNotFoundAnyLevel]
    ELSE IF ProbeLevel(T, lvl, gid) THEN [level |-> lvl, err |-> Nil]
    ELSE DetectFrom(T, gid, lvl + 1)

detectLevel(T, gid) == DetectFrom(T, gid, 0)

\* SELECT DISTINCT GID_(level+1), NAME_(level+1) FROM table
\*  WHERE GID_level = ? AND GID_(level+1) IS NOT NULL
ChildPairs(T, level, parentGID) ==
    { <<T[k].gid[level + 2], T[k].name[level + 2]>> :
        k \in { j \in 1..Len(T) :
                  /\ T[j].gid[level + 1] # NULL
                  /\ T[j].gid[level + 1] = parentGID
                  /\ T[j].gid[level + 2] # NULL } }

\* the orders ORDER BY NAME_(level+1) COLLATE NOCASE may deliver the pairs in
\* (rows whose names compare equal come in an order SQL leaves open)
OrderedPairs(S) ==
    { q \in [1..Cardinality(S) -> S] :
        /\ \A i, j \in 1..Cardinality(S) : i # j => q[i] # q[j]
        /\ \A i, j \in 1..Cardinality(S) : i < j => OrderLeq(q[i][2], q[j][2]) }

\* the rows.Next() loop: keep a row when gid.Valid && name.Valid && len(gid) > 0
KeepChild(p) == p[1] # NULL /\ p[2] # NULL /\ Len(p[1]) > 0

RECURSIVE ChildItems(_, _, _)
ChildItems(q, parentGID, level) ==
    IF q = <<>> THEN <<>>
    ELSE LET rest == ChildItems(Tail(q), parentGID, level)
         IN  IF KeepChild(Head(q))
             THEN <<[GID |-> Head(q)[1], Name |-> Head(q)[2],
                     ParentCode |-> parentGID,
                     Level |-> levelNameMap(level + 1)]>> \o rest
             ELSE rest

\* the results childrenOf may return: [list, err]
childrenOf(T, parentGIDraw) ==
    LET parentGID == TrimSpace(parentGIDraw)
        d == detectLevel(T, parentGID)
    IN  IF parentGID = "" THEN { [list |-> <<>>, err |-> "gid required"] }
        ELSE IF d.err # Nil THEN { [list |-> <<>>, err |-> d.err] }
        ELSE IF d.level = 5 THEN { [list |-> <<>>, err |-> Nil] }
        ELSE { [list |-> ChildItems(q, parentGID, d.level), err |-> Nil] :
                 q \in OrderedPairs(ChildPairs(T, d.level, parentGID)) }

(***************************************************************************)
(* Geometry.  A ring is an axis-parallel rectangle [x1, x2, y1, y2] (its   *)
(* four corners are the ring's vertices), a polygon is a sequence of rings *)
(* (exterior first, then holes), a multipolygon a sequence of polygons.    *)
(* The WKB payload keeps WKB's framing -- a byte-order byte, a 4-byte      *)
(* geometry type in that byte order -- and replaces the coordinate body by *)
(* one byte that indexes the catalogue Shapes.                             *)
(***************************************************************************)
Rect(x1, x2, y1, y2) == [x1 |-> x1, x2 |-> x2, y1 |-> y1, y2 |-> y2]

Shapes == <<
    \* 1: a polygon on the negative side
    [kind |-> "Polygon", polys |-> << <<Rect(-18, -2, -5, 5)>> >>],
    \* 2: a polygon that overlaps shape 1
    [kind |-> "Polygon", polys |-> << <<Rect(-28, -8, -5, 5)>> >>],
    \* 3: a polygon with a hole
    [kind |-> "Polygon", polys |-> << <<Rect(22, 58, -5, 5), Rect(30, 46, -4, 4)>> >>],
    \* 4: a multipolygon of a sliver and a block, with a gap between them
    [kind |-> "MultiPolygon",
     polys |-> << <<Rect(62, 68, -5, 5)>>, <<Rect(82, 98, -5, 5)>> >>],
    \* 5: a multipolygon of two far-apart blocks
    [kind |-> "MultiPolygon",
     polys |-> << <<Rect(-200, -190, -5, 5)>>, <<Rect(190, 200, -5, 5)>> >>],
    \* 6: not an area
    [kind |-> "Point", polys |-> <<>>]
>>

WkbPolygon == 3
WkbMultiPolygon == 6
WkbPoint == 1

WkbTypeOf(kind) ==
    CASE kind = "Polygon" -> WkbPolygon
      [] kind = "MultiPolygon" -> WkbMultiPolygon
      [] OTHER -> WkbPoint

\* the payload of shape k, little-endian (byte order 1) or big-endian (0):
\* byte order, uint32 type, uint32 catalogue index
WkbOf(k, order) ==
    LET t == WkbTypeOf(Shapes[k].kind)
    IN  IF order = 1 THEN <<1, t, 0, 0, 0, k, 0, 0, 0>> ELSE <<0, 0, 0, 0, t, 0, 0, 0, k>>

\* a uint32 at w[i..i+3]; a value with the top bit set comes out negative,
\* which no type or index equals
Uint32At(w, i, order) ==
    IF order = 1
    THEN w[i] + 256 * w[i + 1] + 65536 * w[i + 2] + 16777216 * SignedByte(w[i + 3])
    ELSE w[i + 3] + 256 * w[i + 2] + 65536 * w[i + 1] + 16777216 * SignedByte(w[i])

\* wkb.Unmarshal: [geom, err]
NoGeom == [kind |-> "", polys |-> <<>>]

Unmarshal(w) ==
    IF Len(w) < 5 THEN [geom |-> NoGeom, err |-> "unexpected EOF"]
    ELSE IF w[1] \notin {0, 1} THEN [geom |-> NoGeom, err |-> "invalid byte order"]
    ELSE LET t == Uint32At(w, 2, w[1])
         IN  IF t \notin {WkbPoint, WkbPolygon, WkbMultiPolygon}
             THEN [geom |-> NoGeom, err |-> "unsupported type"]
             ELSE IF Len(w) < 9 THEN [geom |-> NoGeom, err |-> "unexpected EOF"]
             ELSE LET k == Uint32At(w, 6, w[1])
                  IN  IF k \notin 1..Len(Shapes) \/ WkbTypeOf(Shapes[k].kind) # t
                      THEN [geom |-> NoGeom, err |-> "malformed body"]
                      ELSE [geom |-> Shapes[k], err |-> Nil]

\* decodeMultiPolygon: [mp, err]
decodeMultiPolygon(w) ==
    LET g == Unmarshal(w)
    IN  IF g.err # Nil THEN [mp |-> <<>>, err |-> g.err]
        ELSE CASE g.geom.kind = "MultiPolygon" -> [mp |-> g.geom.polys, err |-> Nil]
               [] g.geom.kind = "Polygon" -> [mp |-> g.geom.polys, err |-> Nil]
               [] OTHER -> [mp |-> <<>>, err |-> "unsupported geometry"]

\* planar.RingContains: points on the boundary are in
RingContains(r, p) == r.x1 <= p[1] /\ p[1] <= r.x2 /\ r.y1 <= p[2] /\ p[2] <= r.y2

\* planar.PolygonContains: in the exterior ring and in no hole
PolygonContains(poly, p) ==
    /\ RingContains(poly[1], p)
    /\ \A i \in 2..Len(poly) : ~RingContains(poly[i], p)

\* planar.MultiPolygonContains
MultiPolygonContains(mp, p) == \E i \in 1..Len(mp) : PolygonContains(mp[i], p)

(***************************************************************************)
(* reverse: round, take the bounding-box candidates, test them in order.   *)
(***************************************************************************)
CandLimit == 200

\* the greatest k, negative or not, with 2^k * d <= x  (x, d > 0)
RECURSIVE Log2Up(_, _, _)
Log2Up(x, d, k) == IF d * 2 <= x THEN Log2Up(x, d * 2, k + 1) ELSE k

RECURSIVE Log2Down(_, _, _)
Log2Down(x, d, k) == IF x < d THEN Log2Down(x * 2, d, k - 1) ELSE k

FloorLog2(x, d) == IF x >= d THEN Log2Up(x, d, 0) ELSE Log2Down(x, d, 0)

\* (r * 2^n) mod m, for r < m <= 2^20: ten doublings at a time while ten
\* or more remain
RECURSIVE DoubleMod(_, _, _)
DoubleMod(r, n, m) ==
    IF n = 0 THEN r
    ELSE IF n >= 10 THEN DoubleMod((1024 * r) % m, n - 10, m)
    ELSE DoubleMod((2 * r) % m, n - 1, m)

\* lon * f in float64, for lon the float64 nearest to a / 1e5 with a a
\* positive half (a = 10 m + 5) and f = 1e4: whether the product is below
\* m + 0.5.  The float64 of a / 1e5 is M / 2^e with 2^52 <= M < 2^53; it is
\* below a / 1e5 by r / (1e5 * 2^e), r = (a * 2^e) mod 1e5, when r < 50000.
\* The product is then below m + 0.5 by r / (10 * 2^e), and it is rounded
\* to a float64 below m + 0.5 when that is more than half a unit in the
\* last place of m + 0.5: when r > 40960 and the two numbers lie 14 binary
\* orders apart (a / 5 = 2 m + 1 against a / 1e5).
ProductUnderHalf(a) ==
    LET k == FloorLog2(a, 100000)
        r == DoubleMod(a % 100000, 52 - k, 100000)
    IN  FloorLog2(a, 5) - k = 14 /\ r > 40960 /\ r < 50000

\* math.Round(x * f) / f on fixed-point x: to the nearest multiple of 10,
\* halves away from zero unless the float64 product falls under the half
RoundPlaces(x) ==
    LET a == IF x >= 0 THEN x ELSE -x
        r == IF a % 10 = 5 /\ ProductUnderHalf(a) THEN (a \div 10) * 10
             ELSE ((a + 5) \div 10) * 10
    IN  IF x >= 0 THEN r ELSE -r

\* WHERE r.minx <= ? AND r.maxx >= ? AND r.miny <= ? AND r.maxy >= ?
BoxMatches(box, x, y) ==
    box.minx <= x /\ box.maxx >= x /\ box.miny <= y /\ box.maxy >= y

\* a variant of sqlCandidate with LIMIT 1
sqlCandidate_Limit1(T, x, y) ==
    LET all == SelectSeq(T, LAMBDA row : BoxMatches(row.box, x, y))
    IN  SubSeq(all, 1, Min(Len(all), 1))

\* sqlCandidate: the matching rows in scan order, LIMIT 200
sqlCandidate(T, x, y) ==
    LET all == SelectSeq(T, LAMBDA row : BoxMatches(row.box, x, y))
    IN  SubSeq(all, 1, Min(Len(all), CandLimit))

\* rows.Scan into twelve strings and a []byte: a NULL text column is an error
ScanOK(row) == \A i \in 1..6 : row.gid[i] # NULL /\ row.name[i] # NULL

\* the ChildrenItem list of a match: one item per non-empty level, each
\* pointing at the previous non-empty level
RECURSIVE ChainList(_, _, _)
ChainList(row, i, parent) ==
    IF i > 5 THEN <<>>
    ELSE IF row.gid[i + 1] # ""
         THEN <<[GID |-> row.gid[i + 1], Name |-> row.name[i + 1],
                 ParentCode |-> parent, Level |-> levelNameMap(i)]>>
              \o ChainList(row, i + 1, row.gid[i + 1])
         ELSE ChainList(row, i + 1, parent)

AdminLevels(row) == [GID |-> row.gid, Name |-> row.name, List |-> ChainList(row, 0, "")]

NoLevels == [GID |-> <<>>, Name |-> <<>>, List |-> <<>>]

ErrNoRows == "sql: no rows in result set"
ErrScan == "sql: Scan error"

\* whether a scanned candidate decodes (gpkgToWKB, then decodeMultiPolygon)
Decodes(blob) ==
    /\ gpkgToWKB(blob).err = Nil
    /\ decodeMultiPolygon(gpkgToWKB(blob).wkb).err = Nil

CandidateContains(blob, p) ==
    MultiPolygonContains(decodeMultiPolygon(gpkgToWKB(blob).wkb).mp, p)

\* the loop body leaves the loop at a candidate that fails to scan or that
\* decodes and contains the point; it continues past every other candidate
LeavesLoop(c, p) ==
    ~ScanOK(c) \/ (Decodes(c.blob) /\ CandidateContains(c.blob, p))

FirstOf(S) == CHOOSE i \in S : \A j \in S : i <= j

\* the rows.Next() loop: the outcome is decided by the first candidate at
\* which the body returns; with none, rows.Err() is nil and sql.ErrNoRows
\* is returned
ScanCandidates(cands, p) ==
    LET stops == { i \in 1..Len(cands) : LeavesLoop(cands[i], p) }
    IN  IF stops = {} THEN [res |-> NoLevels, err |-> ErrNoRows]
        ELSE LET c == cands[FirstOf(stops)]
             IN  IF ~ScanOK(c) THEN [res |-> NoLevels, err |-> ErrScan]
                 ELSE [res |-> AdminLevels(c), err |-> Nil]

reverse(T, lon, lat) ==
    LET rlon == RoundPlaces(lon)
        rlat == RoundPlaces(lat)
    IN  ScanCandidates(sqlCandidate(T, rlon, rlat), <<rlon, rlat>>)

(***************************************************************************)
(* Datasets for the reverse lookup.                                        *)
(***************************************************************************)
MaxRows == 2

Srid4326 == <<0, 0, 16, 230>>

Zeros(n) == [i \in 1..n |-> 0]

\* a GeoPackage blob: magic, version, flags, srid, envelope, payload
GeomBlob(env, order, payload) ==
    <<71, 80, 0, env * 2 + order>> \o Srid4326 \o Zeros(EnvCount(env) * 8) \o payload

SetMin(S) == CHOOSE x \in S : \A y \in S : x <= y
SetMax(S) == CHOOSE x \in S : \A y \in S : x >= y

\* the rtree entry of a shape: the box of its exterior rings
BoxOf(k) ==
    LET ext == { Shapes[k].polys[i][1] : i \in 1..Len(Shapes[k].polys) }
    IN  [minx |-> SetMin({ r.x1 : r \in ext }), maxx |-> SetMax({ r.x2 : r \in ext }),
         miny |-> SetMin({ r.y1 : r \in ext }), maxy |-> SetMax({ r.y2 : r \in ext })]

WideBox == [minx |-> -200, maxx |-> 200, miny |-> -10, maxy |-> 10]

Row(gid, name, blob, box) == [gid |-> gid, name |-> name, blob |-> blob, box |-> box]

RowA ==
    Row(<<"IDN", "IDN.1_1", "IDN.1.1_1", "", "", "">>,
        <<"Indonesia", "Aceh", "Aceh Barat", "", "", "">>,
        GeomBlob(1, 1, WkbOf(1, 1)), BoxOf(1))
RowB ==
    Row(<<"IDN", "IDN.2_1", "", "", "", "">>,
        <<"Indonesia", "Bali", "", "", "", "">>,
        GeomBlob(1, 1, WkbOf(2, 1)), BoxOf(2))
RowH ==
    Row(<<"MYS", "MYS.1_1", "MYS.1.1_1", "MYS.1.1.1_1", "", "">>,
        <<"Malaysia", "Johor", "Batu Pahat", "Bagan", "", "">>,
        GeomBlob(0, 0, WkbOf(3, 0)), BoxOf(3))
RowM ==
    Row(<<"FRA", "FRA.1_1", "FRA.1.1_1", "FRA.1.1.1_1", "FRA.1.1.1.1_1", "FRA.1.1.1.1.1_1">>,
        <<"France", "Ain", "Belley", "Belley", "Ambleon", "Ambleon">>,
        GeomBlob(4, 1, WkbOf(4, 1)), BoxOf(4))
\* rows whose blob does not yield a multipolygon
RowPoint ==
    Row(<<"XPT", "", "", "", "", "">>, <<"Point", "", "", "", "", "">>,
        GeomBlob(1, 1, WkbOf(6, 1)), WideBox)
RowShort ==
    Row(<<"XSH", "", "", "", "", "">>, <<"Short", "", "", "", "", "">>,
        <<71, 80, 0>>, WideBox)
RowTrunc ==
    Row(<<"XTR", "", "", "", "", "">>, <<"Truncated", "", "", "", "", "">>,
        GeomBlob(1, 1, SubSeq(WkbOf(1, 1), 1, 7)), WideBox)
\* rows with NULL text columns, which rows.Scan cannot store in a string:
\* the truncated payload of RowTrunc under a NULL name, and the area of
\* RowB with NULL at the levels it does not have
RowNullName ==
    Row(<<"XNN", "", "", "", "", "">>, <<NULL, "", "", "", "", "">>,
        GeomBlob(1, 1, SubSeq(WkbOf(1, 1), 1, 7)), WideBox)
RowNullCode ==
    Row(<<"IDN", "IDN.2_1", NULL, NULL, NULL, NULL>>,
        <<"Indonesia", "Bali", NULL, NULL, NULL, NULL>>,
        GeomBlob(1, 1, WkbOf(2, 1)), BoxOf(2))
\* a row whose box matches every query point and whose area holds none
RowFiller ==
    Row(<<"FIL", "", "", "", "", "">>, <<"Filler", "", "", "", "", "">>,
        GeomBlob(0, 1, WkbOf(5, 1)), BoxOf(5))

RevRows ==
    {RowA, RowB, RowH, RowM, RowPoint, RowShort, RowTrunc, RowNullName, RowNullCode}

SeqsUpTo(S, n) == UNION { [1..k -> S] : k \in 0..n }

Fillers(n) == [i \in 1..n |-> RowFiller]

\* the datasets: up to MaxRows rows, or up to MaxRows - 1 rows behind enough
\* fillers to reach or to pass the candidate limit
RevTables ==
    { rows : rows \in SeqsUpTo(RevRows, MaxRows) }
    \cup { Fillers(n) \o rows : n \in {CandLimit - 1, CandLimit},
                                rows \in SeqsUpTo(RevRows, MaxRows - 1) }

\* query points: inside, on the rounding edge of, and outside the shapes;
\* -15 is a half that the float64 product rounds towards zero
QueryLons == {-15, -14, -4, 0, 25, 40, 47, 65, 70, 90}
QueryLats == {4, 6}

InitReverse ==
    /\ table \in RevTables
    /\ elevations = {}
    /\ googleAPIKey = ""
    /\ reqs = <<>>
    /\ provided = {}
    /\ call = Idle
    /\ db = FreePool

CallReverse(lon, lat) ==
    /\ call.fn = "idle"
    /\ call' = [fn |-> "reverse", in |-> <<lon, lat>>,
                out |-> reverse(table, lon, lat), done |-> TRUE]
    /\ UNCHANGED <<table, elevations, googleAPIKey, reqs, provided, db>>

NextReverse == \E lon \in QueryLons, lat \in QueryLats : CallReverse(lon, lat)

SpecReverse == InitReverse /\ [][NextReverse]_vars

(***************************************************************************)
(* Datasets for the hierarchy functions: rows of one chain g0a > g1a > ... *)
(* A row of depth d carries the chain's codes at the levels below d and    *)
(* its own code at level d; the columns past d are empty or NULL.          *)
(***************************************************************************)
Digit(l) == CharAt("012345", l + 1)

Code(l, v) == "g" \o Digit(l) \o v

NameOf(l, v) == (IF v = "a" THEN "Zeta" ELSE "alpha") \o Digit(l)

\* v = "a": the chain's own code; "b": a sibling, NULL past its depth;
\* "n": the sibling with a NULL name; "x": the root code again at depth d
HRow(d, v) ==
    Row([i \in 1..6 |->
            CASE i - 1 < d -> Code(i - 1, "a")
              [] i - 1 = d -> (CASE v = "a" -> Code(d, "a")
                                 [] v = "x" -> Code(0, "a")
                                 [] OTHER -> Code(d, "b"))
              [] OTHER -> (IF v = "b" THEN NULL ELSE "")],
        [i \in 1..6 |->
            CASE i - 1 < d -> NameOf(i - 1, "a")
              [] i - 1 = d -> (CASE v = "a" -> NameOf(d, "a")
                                 [] v = "x" -> "Mid"
                                 [] v = "n" -> NULL
                                 [] OTHER -> NameOf(d, "b"))
              [] OTHER -> (IF v = "b" THEN NULL ELSE "")],
        GeomBlob(0, 1, WkbOf(1, 1)), BoxOf(1))

HierRows ==
    { HRow(d, "a") : d \in 0..5 } \cup { HRow(d, "b") : d \in 1..5 }
        \cup { HRow(1, "n"), HRow(5, "n"), HRow(2, "x") }

HierTables == SeqsUpTo(HierRows, MaxRows)

\* the codes asked for: every code of the catalogue, a code in no row, the
\* empty and the blank code, a padded code, and a code in the other case
HierCodes ==
    { Code(l, v) : l \in Levels, v \in {"a", "b"} }
        \cup { "zz", "", " \f", "\fg1a ", "G1A" }

InitHier ==
    /\ table \in HierTables
    /\ elevations = {}
    /\ googleAPIKey = ""
    /\ reqs = <<>>
    /\ provided = {}
    /\ call = Idle
    /\ db = FreePool

CallDetectLevel(gid) ==
    /\ call.fn = "idle"
    /\ call' = [fn |-> "detectLevel", in |-> gid,
                out |-> detectLevel(table, gid), done |-> TRUE]
    /\ UNCHANGED <<table, elevations, googleAPIKey, reqs, provided, db>>

CallChildrenOf(parentGID) ==
    /\ call.fn = "idle"
    /\ \E r \in childrenOf(table, parentGID) :
          call' = [fn |-> "childrenOf", in |-> parentGID, out |-> r, done |-> TRUE]
    /\ UNCHANGED <<table, elevations, googleAPIKey, reqs, provided, db>>

NextHier ==
    \/ \E gid \in HierCodes : CallDetectLevel(gid)
    \/ \E gid \in HierCodes : CallChildrenOf(gid)

SpecHier == InitHier /\ [][NextHier]_vars

(***************************************************************************)
(* latlngOf and the /latlng handler (handleLatlng) with the elevation      *)
(* cache.  The centroid is computed from the decoded geometry and only     *)
(* passed on (to the provider's URL and to the response); the provider's   *)
(* answer does not depend on it in the model, so the item omits it.        *)
(***************************************************************************)
MaxReq == 2

\* the levelName map of latlngOf
latlngLevelName(i) ==
    CASE i = 0 -> "LEVEL_UNSPECIFIED"
      [] i = 1 -> "PROVINCE"
      [] i = 2 -> "CITY"
      [] i = 3 -> "DISTRICT"
      [] i = 4 -> "VILLAGE"
      [] i = 5 -> "SUBVILLAGE"
      [] OTHER -> ""

NoItem == [GID |-> "", Name |-> "", ParentCode |-> "", Level |-> "", Elevation |-> 0]

\* SELECT gidCol, nameCol, parentGidCol, geom FROM table WHERE gidCol = ? LIMIT 1
FirstRowAt(T, level, gid) ==
    T[FirstOf({ k \in 1..Len(T) : T[k].gid[level + 1] # NULL /\ T[k].gid[level + 1] = gid })]

\* latlngOf: [item, err]
latlngOf(T, GIDraw) ==
    LET GID == TrimSpace(GIDraw)
        d == detectLevel(T, GID)
    IN  IF GID = "" THEN [item |-> NoItem, err |-> "gid required"]
        ELSE IF d.err # Nil THEN [item |-> NoItem, err |-> d.err]
        ELSE LET row == FirstRowAt(T, d.level, GID)
                 parent == IF d.level > 0 /\ row.gid[d.level] # NULL
                           THEN row.gid[d.level] ELSE ""
                 w == gpkgToWKB(row.blob)
             IN  IF row.name[d.level + 1] = NULL
                 THEN [item |-> NoItem, err |-> ErrScan]
                 ELSE IF w.err # Nil
                 THEN [item |-> NoItem, err |-> "failed to convert gpkg to wkb: " \o w.err]
                 ELSE IF decodeMultiPolygon(w.wkb).err # Nil
                 THEN [item |-> NoItem,
                       err |-> "failed to decode multipolygon: " \o decodeMultiPolygon(w.wkb).err]
                 ELSE [item |-> [GID |-> row.gid[d.level + 1],
                                 Name |-> row.name[d.level + 1],
                                 ParentCode |-> parent,
                                 Level |-> latlngLevelName(d.level),
                                 Elevation |-> 0],
                       err |-> Nil]

ErrStore == "store error"

\* the errors a statement on the dataset may come back with
DatasetErrs == { Nil, ErrStore }
ErrConstraint == "UNIQUE constraint failed: elevations.gid"

\* getElevation: the outcomes of SELECT elevation FROM elevations WHERE gid = ?
\* -- the stored value, sql.ErrNoRows, or an error of the store
getElevation(E, gid) ==
    { [elevation |-> e.elevation, err |-> Nil] : e \in { x \in E : x.gid = gid } }
        \cup (IF \E x \in E : x.gid = gid THEN {} ELSE { [elevation |-> 0, err |-> ErrNoRows] })
        \cup { [elevation |-> 0, err |-> ErrStore] }

\* a variant of saveElevation that replaces an existing row
saveElevation_Replace(E, gid, elevation) ==
    { [store |-> { x \in E : x.gid # gid } \cup { [gid |-> gid, elevation |-> elevation] },
       err |-> Nil],
      [store |-> E, err |-> ErrStore] }

\* saveElevation: the outcomes of INSERT INTO elevations (gid, elevation) --
\* the row is added, the primary key rejects it, or an error of the store
saveElevation(E, gid, elevation) ==
    (IF \E x \in E : x.gid = gid
     THEN { [store |-> E, err |-> ErrConstraint] }
     ELSE { [store |-> E \cup { [gid |-> gid, elevation |-> elevation] }, err |-> Nil] })
        \cup { [store |-> E, err |-> ErrStore] }

\* the elevations the provider may answer with: the value that is also the
\* default, and another one
ElevVals == {0, 1}

\* fetchElevationFromGoogle: an error without an API key; otherwise the
\* request fails (transport, status, decoding, empty results) or answers
fetchElevationFromGoogle(key) ==
    IF key = "" THEN { [elevation |-> 0, err |-> "GOOGLE_API_KEY is not set"] }
    ELSE { [elevation |-> 0, err |-> "google api request failed"] }
            \cup { [elevation |-> v, err |-> Nil] : v \in ElevVals }

\* env("GPKG_PARENT_CODE", "IDN")
DefaultCode == "IDN"

\* a request: the code asked for, where the handler stands, the locals of
\* latlngOf / detectLevel while they run (the code looked up, the level
\* probed, whether the statement at hand was issued), the item being
\* built, the fetched elevation, the response status (0: none yet), and
\* what its cache read, provider call and insert came to; prior records
\* which requests had been answered when it arrived
NewReq(code) ==
    [code |-> code, pc |-> "detectLevel", gid |-> "", lvl |-> 0, issued |-> FALSE,
     item |-> NoItem, newElevation |-> 0,
     status |-> 0, read |-> "", fetched |-> "", saved |-> "", prior |-> {}]

Respond(r, status) == [r EXCEPT !.pc = "done", !.status = status]

\* lines 526-539: resolve the code; 404 / 500 on failure
AfterLatlngOf(r, res) ==
    IF res.err # Nil
    THEN Respond(r, IF Contains(res.err, "gid not found") THEN 404 ELSE 500)
    ELSE [r EXCEPT !.pc = "getElevation", !.item = res.item]

\* lines 541-543, 555-561: a hit answers, a miss goes on to the provider,
\* any other error answers with elevation 0.0
AfterGetElevation(r, res) ==
    IF res.err = Nil
    THEN Respond([r EXCEPT !.read = "hit", !.item.Elevation = res.elevation], 200)
    ELSE IF res.err = ErrNoRows THEN [r EXCEPT !.read = "miss", !.pc = "fetch"]
    ELSE Respond([r EXCEPT !.read = "fault", !.item.Elevation = 0], 200)

\* a variant of the fetch branch that stores the default after a failure
AfterFetch_SaveDefault(r, res) ==
    IF res.err # Nil
    THEN [r EXCEPT !.fetched = "fail", !.item.Elevation = 0, !.newElevation = 0,
                   !.pc = "save"]
    ELSE [r EXCEPT !.fetched = "ok", !.item.Elevation = res.elevation,
                   !.newElevation = res.elevation, !.pc = "save"]

\* lines 544-550: a failure answers with 0.0, a success goes on to the insert
AfterFetch(r, res) ==
    IF res.err # Nil
    THEN Respond([r EXCEPT !.fetched = "fail", !.item.Elevation = 0], 200)
    ELSE [r EXCEPT !.fetched = "ok", !.item.Elevation = res.elevation,
                   !.newElevation = res.elevation, !.pc = "save"]

SaveOutcome(err) ==
    CASE err = Nil -> "ok" [] err = ErrConstraint -> "conflict" [] OTHER -> "fault"

\* a variant of the insert branch that fails the request on an insert error
AfterSave_FailOnError(r, res) ==
    Respond([r EXCEPT !.saved = SaveOutcome(res.err)], IF res.err = Nil THEN 200 ELSE 500)

\* lines 551-553, 563-568: an insert error is logged; the response is sent
AfterSave(r, res) == Respond([r EXCEPT !.saved = SaveOutcome(res.err)], 200)

\* the dataset the handler serves from
ElevTable == <<RowA, RowTrunc>>

\* the code parameters: absent (the default code), padded, a row whose
\* geometry does not decode, and a code in no row
ReqCodes == {"", "\fIDN.1_1 ", "XTR", "zz"}

InitElev ==
    /\ table = ElevTable
    /\ elevations = {}
    /\ googleAPIKey \in {"", "key"}
    /\ reqs = <<>>
    /\ provided = {}
    /\ call = Idle
    /\ db = FreePool

\* a request arrives: lines 526-529, the code parameter, trimmed, or the
\* default code; latlngOf (403-415) trims it again and goes to detectLevel
Arrive(code) ==
    /\ Len(reqs) < MaxReq
    /\ LET c == IF TrimSpace(code) = "" THEN DefaultCode ELSE TrimSpace(code)
       IN  reqs' = Append(reqs,
                [NewReq(code) EXCEPT
                    !.gid = TrimSpace(c),
                    !.prior = { j \in 1..Len(reqs) : reqs[j].pc = "done" }])
    /\ UNCHANGED <<table, elevations, googleAPIKey, provided, call, db>>

\* latlngOf has returned: its locals are gone, the handler goes on
LeaveLatlngOf(r, res) == [AfterLatlngOf(r, res) EXCEPT !.lvl = 0, !.issued = FALSE]

\* lines 311, 441: a QueryRow of detectLevel or latlngOf asks the pool for
\* the dataset connection
LatlngIssue(i) ==
    /\ reqs[i].pc \in {"detectLevel", "QueryRow"}
    /\ ~reqs[i].issued
    /\ db' = connAcquire(db, i)
    /\ reqs' = [reqs EXCEPT ![i].issued = TRUE]
    /\ UNCHANGED <<table, elevations, googleAPIKey, provided, call>>

\* lines 307-319: one probe of detectLevel runs; Scan gives the connection
\* back.  Found: latlngOf goes on to its own QueryRow; not found: the next
\* level, or "gid not found in any level"; an error of the dataset ends
\* latlngOf
LatlngProbe(i) ==
    /\ reqs[i].pc = "detectLevel"
    /\ reqs[i].issued
    /\ Granted(i)
    /\ \E err \in DatasetErrs :
          reqs' = [reqs EXCEPT ![i] =
              IF err # Nil THEN LeaveLatlngOf(@, [item |-> NoItem, err |-> err])
              ELSE IF ProbeLevel(table, @.lvl, @.gid)
                   THEN [@ EXCEPT !.pc = "QueryRow", !.issued = FALSE]
              ELSE IF @.lvl < 5 THEN [@ EXCEPT !.lvl = @ + 1, !.issued = FALSE]
              ELSE LeaveLatlngOf(@, [item |-> NoItem, err |-> ErrNotFoundAnyLevel])]
    /\ db' \in releaseConn(db, i)
    /\ UNCHANGED <<table, elevations, googleAPIKey, provided, call>>

\* lines 441-469, 531-539: the QueryRow of latlngOf runs, Scan gives the
\* connection back, the item is built; the handler answers 404 / 500 on an
\* error and goes on to the elevation otherwise
LatlngRow(i) ==
    /\ reqs[i].pc = "QueryRow"
    /\ reqs[i].issued
    /\ Granted(i)
    /\ \E err \in DatasetErrs :
          reqs' = [reqs EXCEPT ![i] =
              LeaveLatlngOf(@, IF err # Nil THEN [item |-> NoItem, err |-> err]
                               ELSE latlngOf(table, @.gid))]
    /\ db' \in releaseConn(db, i)
    /\ UNCHANGED <<table, elevations, googleAPIKey, provided, call>>

\* line 541
GetElevation(i) ==
    /\ reqs[i].pc = "getElevation"
    /\ \E res \in getElevation(elevations, reqs[i].item.GID) :
          reqs' = [reqs EXCEPT ![i] = AfterGetElevation(reqs[i], res)]
    /\ UNCHANGED <<table, elevations, googleAPIKey, provided, call, db>>

\* line 544
Fetch(i) ==
    /\ reqs[i].pc = "fetch"
    /\ \E res \in fetchElevationFromGoogle(googleAPIKey) :
          /\ reqs' = [reqs EXCEPT ![i] = AfterFetch(reqs[i], res)]
          /\ provided' = IF res.err = Nil
                         THEN provided \cup { <<reqs[i].item.GID, res.elevation>> }
                         ELSE provided
    /\ UNCHANGED <<table, elevations, googleAPIKey, call, db>>

\* line 551
Save(i) ==
    /\ reqs[i].pc = "save"
    /\ \E res \in saveElevation(elevations, reqs[i].item.GID, reqs[i].newElevation) :
          /\ elevations' = res.store
          /\ reqs' = [reqs EXCEPT ![i] = AfterSave(reqs[i], res)]
    /\ UNCHANGED <<table, googleAPIKey, provided, call, db>>

NextElev ==
    \/ \E code \in ReqCodes : Arrive(code)
    \/ \E i \in 1..Len(reqs) : LatlngIssue(i)
    \/ \E i \in 1..Len(reqs) : LatlngProbe(i)
    \/ \E i \in 1..Len(reqs) : LatlngRow(i)
    \/ \E i \in 1..Len(reqs) : GetElevation(i)
    \/ \E i \in 1..Len(reqs) : Fetch(i)
    \/ \E i \in 1..Len(reqs) : Save(i)

SpecElev == InitElev /\ [][NextElev]_vars

(***************************************************************************)
(* C10.                                                                    *)
(***************************************************************************)
HasMagic(b) == Len(b) >= 2 /\ b[1] = 71 /\ b[2] = 80

\* the payload offsets the specification lists for indicators 0..4
ListedOffset(i) ==
    CASE i = 0 -> 8 [] i = 1 -> 40 [] i = 2 -> 56 [] i = 3 -> 56 [] i = 4 -> 72

\* the indicator of a blob (meaningful once the flags byte is present)
BlobIndicator(b) == IF Len(b) >= 4 THEN EnvIndicator(b[4]) ELSE 0

GpkgDone == call.fn = "gpkgToWKB" /\ call.done

InC10Scope(b) == HasMagic(b) /\ (Len(b) >= 4 => BlobIndicator(b) \in 0..4)

\* C10 (as stated): a blob with the magic and indicator in 0..4 fails exactly
\* when it is shorter than 8 bytes or the listed offset exceeds its length,
\* and otherwise the result is the bytes from the offset onward.
C10_Original ==
    (GpkgDone /\ InC10Scope(call.in)) =>
        LET b == call.in
            off == ListedOffset(BlobIndicator(b))
        IN  /\ (call.out.err # Nil) <=> (Len(b) < 8 \/ off > Len(b))
            /\ call.out.err = Nil => call.out.wkb = SliceFrom(b, off)

\* C10 (amended): a blob with the magic and indicator in 0..4 fails exactly
\* when it is shorter than 8 bytes or the listed offset (8, 40, 56, 56, 72)
\* is greater than or equal to its length, i.e. no payload byte follows the
\* envelope; otherwise the result is the bytes from the offset onward.
C10_OffsetRule ==
    (GpkgDone /\ InC10Scope(call.in)) =>
        LET b == call.in
            off == ListedOffset(BlobIndicator(b))
        IN  /\ (call.out.err # Nil) <=> (Len(b) < 8 \/ off >= Len(b))
            /\ call.out.err = Nil => call.out.wkb = SliceFrom(b, off)

\* a blob with the magic and indicator 1 whose length is one past the offset:
\* the shortest accepted one, returning its single payload byte
C10_Witness ==
    /\ GpkgDone
    /\ HasMagic(call.in)
    /\ Len(call.in) = 41
    /\ BlobIndicator(call.in) = 1
    /\ call.out.err = Nil
    /\ call.out.wkb = <<(41 * 3) % 256>>

(***************************************************************************)
(* C4 and C7: the reverse lookup.                                          *)
(***************************************************************************)
RevDone == call.fn = "reverse" /\ call.done

QueryPoint == <<call.in[1], call.in[2]>>
RoundedPoint == <<RoundPlaces(call.in[1]), RoundPlaces(call.in[2])>>

RowDecodes(row) == Decodes(row.blob)
GeomOf(row) == decodeMultiPolygon(gpkgToWKB(row.blob).wkb).mp

\* strictly inside the exterior ring of one of the polygons and outside
\* every hole of that polygon
StrictlyInside(mp, p) ==
    \E i \in 1..Len(mp) :
        /\ mp[i][1].x1 < p[1] /\ p[1] < mp[i][1].x2
        /\ mp[i][1].y1 < p[2] /\ p[2] < mp[i][1].y2
        /\ \A h \in 2..Len(mp[i]) :
              ~(/\ mp[i][h].x1 <= p[1] /\ p[1] <= mp[i][h].x2
                /\ mp[i][h].y1 <= p[2] /\ p[2] <= mp[i][h].y2)

ReturnsChainOf(row) ==
    /\ call.out.err = Nil
    /\ call.out.res.GID = row.gid
    /\ call.out.res.Name = row.name

\* a row with a NULL in one of its twelve code and name columns
HasNullColumn(row) ==
    \E i \in 1..6 : row.gid[i] = NULL \/ row.name[i] = NULL

\* C4 (as stated): a query point strictly inside the exterior ring and
\* outside every hole of a row's polygon makes reverse return that row's
\* chain.  The statement is taken on the datasets without a NULL code or
\* name: what a NULL does to the lookup is the matter of C7, and the
\* statement fails without it.
C4_Original ==
    (RevDone /\ \A j \in 1..Len(table) : ~HasNullColumn(table[j])) =>
        \A k \in 1..Len(table) :
            (RowDecodes(table[k]) /\ StrictlyInside(GeomOf(table[k]), QueryPoint))
                => ReturnsChainOf(table[k])

\* the rows before row k that the bounding-box query matches
MatchesBefore(k, p) ==
    { j \in 1..(k - 1) : BoxMatches(table[j].box, p[1], p[2]) }

\* C4 (amended): when the rounded query point lies strictly inside the
\* exterior ring and outside every hole of a row's polygon and fewer than
\* 200 rows before it match the bounding-box query, reverse does not return
\* NotFound.  Its outcome is decided by the first row, up to and including
\* that one, that is a candidate and either carries a NULL code or name or
\* decodes and contains the rounded point: a Scan error with no chain when
\* that row carries a NULL, and that row's chain otherwise.
C4_RoundedPointWithinLimit ==
    RevDone =>
        \A k \in 1..Len(table) :
            (/\ RowDecodes(table[k])
             /\ StrictlyInside(GeomOf(table[k]), RoundedPoint)
             /\ Cardinality(MatchesBefore(k, RoundedPoint)) < CandLimit)
                => LET stops == { j \in 1..k :
                                    \/ j = k
                                    \/ /\ j \in MatchesBefore(k, RoundedPoint)
                                       /\ \/ HasNullColumn(table[j])
                                          \/ /\ RowDecodes(table[j])
                                             /\ MultiPolygonContains(GeomOf(table[j]),
                                                                     RoundedPoint) }
                       first == table[CHOOSE j \in stops : \A i \in stops : j <= i]
                   IN  IF HasNullColumn(first)
                       THEN call.out = [res |-> NoLevels, err |-> ErrScan]
                       ELSE ReturnsChainOf(first)

\* the region is the 200th and last candidate, behind 199 rows whose boxes
\* match, and its chain is returned for a point that rounds into it
C4_Witness ==
    /\ RevDone
    /\ Len(table) = CandLimit
    /\ table[CandLimit] = RowH
    /\ call.in = <<47, 4>>
    /\ StrictlyInside(GeomOf(RowH), RoundedPoint)
    /\ ReturnsChainOf(RowH)

\* the candidates the loop receives, and those of them that decode
ReceivedCandidates == sqlCandidate(table, RoundedPoint[1], RoundedPoint[2])
DecodableCandidates == SelectSeq(ReceivedCandidates, RowDecodes)

\* C7: for every candidate sequence, the outcome of reverse is its outcome
\* on the sequence without the candidates that fail to decode: the chain of
\* the first decodable candidate containing the rounded point, or
\* sql.ErrNoRows when none contains it; a candidate that fails to decode
\* never makes the lookup return an error.
C7_MalformedSkipped ==
    RevDone =>
        LET good == DecodableCandidates
            hits == { i \in 1..Len(good) :
                        MultiPolygonContains(GeomOf(good[i]), RoundedPoint) }
        IN  /\ call.out = ScanCandidates(good, RoundedPoint)
            /\ IF hits = {}
               THEN call.out.err = ErrNoRows
               ELSE ReturnsChainOf(good[CHOOSE i \in hits : \A j \in hits : i <= j])

(***************************************************************************)
(* C9 and C5: detectLevel and childrenOf.                                  *)
(***************************************************************************)
DetectDone == call.fn = "detectLevel" /\ call.done

\* some row has the code as its level-l code
CarriedAt(code, l) ==
    \E k \in 1..Len(table) : table[k].gid[l + 1] # NULL /\ table[k].gid[l + 1] = code

\* C9: detectLevel returns the smallest level at which some row carries the
\* code, and the not-found error exactly when no row carries it at any of
\* the six levels.
C9_LowestLevelWins ==
    DetectDone =>
        LET at == { l \in Levels : CarriedAt(call.in, l) }
        IN  /\ (call.out.err # Nil) <=> (at = {})
            /\ call.out.err # Nil => call.out.err = ErrNotFoundAnyLevel
            /\ call.out.err = Nil =>
                  /\ call.out.level \in at
                  /\ \A l \in at : call.out.level <= l

\* the root code stands at level 0 of one row and at level 2 of another,
\* and level 0 is returned
C9_Witness ==
    /\ DetectDone
    /\ call.in = Code(0, "a")
    /\ CarriedAt(call.in, 0)
    /\ CarriedAt(call.in, 2)
    /\ call.out.err = Nil
    /\ call.out.level = 0

ChildrenDone == call.fn = "childrenOf" /\ call.done

\* the level tags of the six levels (the tags of the /latlng response)
LevelTag(l) ==
    CASE l = 0 -> "LEVEL_UNSPECIFIED"
      [] l = 1 -> "PROVINCE"
      [] l = 2 -> "CITY"
      [] l = 3 -> "DISTRICT"
      [] l = 4 -> "VILLAGE"
      [] l = 5 -> "SUBVILLAGE"

\* the distinct (childCode, childName) pairs of the rows whose level-L code
\* is the code and whose level-(L+1) code is neither NULL nor empty
ExpectedPairs(code, L) ==
    { <<table[k].gid[L + 2], table[k].name[L + 2]>> :
        k \in { j \in 1..Len(table) :
                  /\ table[j].gid[L + 1] # NULL
                  /\ table[j].gid[L + 1] = code
                  /\ table[j].gid[L + 2] # NULL
                  /\ table[j].gid[L + 2] # "" } }

ReturnedPairs == { <<call.out.list[i].GID, call.out.list[i].Name>> :
                      i \in 1..Len(call.out.list) }

\* the level at which the code is found: the lowest level carrying it
FoundAt(code, L) == CarriedAt(code, L) /\ \A l \in 0..(L - 1) : ~CarriedAt(code, l)

\* C5: for a code found at level L in 0..4, childrenOf returns exactly the
\* distinct child pairs of that code, each with parentCode = code and a
\* level tag that identifies level L+1 -- for every L, L = 4 included.
C5_ChildrenOneLevelBelow ==
    (ChildrenDone /\ call.in = TrimSpace(call.in) /\ call.in # "") =>
        \A L \in 0..4 :
            FoundAt(call.in, L) =>
                /\ call.out.err = Nil
                /\ ReturnedPairs = ExpectedPairs(call.in, L)
                /\ \A i \in 1..Len(call.out.list) :
                      /\ call.out.list[i].ParentCode = call.in
                      /\ call.out.list[i].Level = LevelTag(L + 1)

(***************************************************************************)
(* C1, C2, C3, C6, C8: the /latlng handler and the elevation cache.        *)
(***************************************************************************)
Reqs == 1..Len(reqs)

Answered(i) == reqs[i].pc = "done"

GidOf(i) == reqs[i].item.GID

StoredFor(gid) == { e \in elevations : e.gid = gid }

\* request n arrived after request i was answered, for the same gid
LaterFor(n, i) == i \in reqs[n].prior /\ reqs[n].status \in {0, 200} /\ GidOf(n) = GidOf(i)

\* C1: once a request for c has completed with a successful provider fetch,
\* every later request for c returns the elevation stored in the cache and
\* makes no call to the provider.
C1_LaterRequestsServedFromCache ==
    \A i, n \in Reqs :
        (/\ reqs[i].fetched = "ok"
         /\ LaterFor(n, i)
         /\ Answered(n))
            => /\ reqs[n].fetched = ""
               /\ reqs[n].status = 200
               /\ \E e \in StoredFor(GidOf(n)) : reqs[n].item.Elevation = e.elevation

\* C6: a request whose cache read fails with a store error (not a miss) is
\* answered with an internal error, never with a success response.
C6_StoreErrorSurfaced ==
    \A i \in Reqs :
        (reqs[i].read = "fault" /\ Answered(i)) => reqs[i].status = 500

\* n is the first request for i's gid that arrived after i was answered
NextFor(n, i) ==
    /\ LaterFor(n, i)
    /\ \A m \in Reqs : (m < n /\ LaterFor(m, i)) => FALSE

\* request i saw a miss, its provider call failed, and it was answered
FailedFetch(i) ==
    reqs[i].read = "miss" /\ reqs[i].fetched = "fail" /\ Answered(i)

\* the step in which the provider call of request i fails: the step that
\* answers the request
FailingFetchStep(i) ==
    reqs[i].pc = "fetch" /\ reqs'[i].fetched = "fail"

\* the store has no entry for the code of request i at the moment its
\* provider call fails and it is answered
C2_NoEntryWhenAnswered ==
    [][\A i \in Reqs :
          FailingFetchStep(i) => { e \in elevations' : e.gid = GidOf(i) } = {}]_vars

\* internal error, also when its insert hit the duplicate-key conflict; and
\* after such an insert the store holds exactly one entry for the code.
C3_DuplicateInsertIgnored ==
    \A i \in Reqs :
        (reqs[i].read = "miss" /\ reqs[i].fetched = "ok" /\ Answered(i))
            => /\ reqs[i].status = 200
               /\ reqs[i].item.Elevation = reqs[i].newElevation
               /\ <<GidOf(i), reqs[i].newElevation>> \in provided
               /\ reqs[i].saved \in {"ok", "conflict"}
                     => Cardinality(StoredFor(GidOf(i))) = 1

\* two requests for one code both missed and fetched different elevations;
\* one insert succeeded, the other hit the conflict; both are answered 200
C3_Witness ==
    \E i, j \in Reqs :
        /\ GidOf(i) = GidOf(j)
        /\ reqs[i].saved = "ok" /\ reqs[j].saved = "conflict"
        /\ reqs[i].newElevation # reqs[j].newElevation
        /\ reqs[i].status = 200 /\ reqs[j].status = 200
        /\ reqs[j].item.Elevation = reqs[j].newElevation

\* C8: every entry of the store holds a value that a successful provider
\* call for its code returned, and an entry, once there, stays the only
\* entry of its code with its value unchanged.
C8_WriteOnce ==
    /\ [](\A e \in elevations : <<e.gid, e.elevation>> \in provided)
    /\ [][\A e \in elevations : { x \in elevations' : x.gid = e.gid } = {e}]_vars

\* an entry holds the value its writer fetched, after another request for
\* the code fetched a different value and had its insert rejected
C8_Witness ==
    \E i, j \in Reqs :
        /\ reqs[i].saved = "ok"
        /\ reqs[j].saved = "conflict"
        /\ reqs[j].newElevation # reqs[i].newElevation
        /\ StoredFor(GidOf(j)) = { [gid |-> GidOf(i), elevation |-> reqs[i].newElevation] }

(***************************************************************************)
(* The dataset connection.  newServer limits the pool of Server.db to one  *)
(* open connection.  A statement (db.Query, db.QueryRow) asks the pool for *)
(* the connection and blocks while another holder has it; the connection   *)
(* goes back to the pool when the statement's cursor is closed (Row.Scan,  *)
(* rows.Close, a failed Query).  The pool hands a returned connection to   *)
(* one of the blocked statements, whichever it picks.                      *)
(***************************************************************************)
MaxConc == 2

\* a call on the dataset: which function, its argument, the statement it
\* stands at (pc), the level detectLevel probes, whether the statement was
\* issued, whether its rows cursor is open, and the result
NewCall(kind, arg) ==
    [kind |-> kind, arg |-> arg, gid |-> "", pc |-> "", lvl |-> 0,
     issued |-> FALSE, rows |-> FALSE, out |-> [err |-> Nil]]

Return(r, out) == [r EXCEPT !.pc = "done", !.issued = FALSE, !.rows = FALSE, !.out = out]

\* the entry of reverse / detectLevel / childrenOf / latlngOf up to its
\* first statement
BeginCall(kind, arg) ==
    LET r == NewCall(kind, arg)
    IN  CASE kind = "reverse" -> [r EXCEPT !.pc = "Query"]
          [] kind = "detectLevel" -> [r EXCEPT !.pc = "detectLevel", !.gid = arg]
          [] OTHER ->
                IF TrimSpace(arg) = ""
                THEN Return(r, [err |-> "gid required"])
                ELSE [r EXCEPT !.pc = "detectLevel", !.gid = TrimSpace(arg)]

\* detectLevel found the code at r.lvl: its caller goes on
AfterDetectLevel(r) ==
    CASE r.kind = "detectLevel" -> Return(r, [level |-> r.lvl, err |-> Nil])
      [] r.kind = "childrenOf" ->
            IF r.lvl = 5 THEN Return(r, [list |-> <<>>, err |-> Nil])
            ELSE [r EXCEPT !.pc = "Query", !.issued = FALSE]
      [] OTHER -> [r EXCEPT !.pc = "QueryRow", !.issued = FALSE]

\* one probe of detectLevel's loop, after QueryRow(...).Scan(&one)
AfterProbe(r, T, err) ==
    IF err # Nil THEN Return(r, [level |-> 0, err |-> err])
    ELSE IF ProbeLevel(T, r.lvl, r.gid) THEN AfterDetectLevel(r)
    ELSE IF r.lvl < 5 THEN [r EXCEPT !.lvl = @ + 1, !.issued = FALSE]
    ELSE Return(r, [level |-> 0, err |-> ErrNotFoundAnyLevel])

\* the dataset and the calls made on it
ConnTable == <<RowA, RowM>>

ConnCalls ==
    { <<"reverse", <<-14, 4>>>>,
      <<"childrenOf", "IDN">>, <<"childrenOf", "\fFRA.1.1.1.1.1_1">>,
      <<"childrenOf", "\f ">>,
      <<"detectLevel", "zz">>, <<"latlngOf", " IDN.1_1\f">> }

\* the dataset is immutable, so what the rows loop of reverse and the row
\* of latlngOf come to is tabulated once per argument
ReverseOut ==
    [c \in { x \in ConnCalls : x[1] = "reverse" } |->
        reverse(ConnTable, c[2][1], c[2][2])]

LatlngOut ==
    [c \in { x \in ConnCalls : x[1] = "latlngOf" } |-> latlngOf(ConnTable, c[2])]

\* what the rows loop of reverse / childrenOf may return
LoopResults(r, T) ==
    IF r.kind = "reverse"
    THEN { [err |-> ReverseOut[<<r.kind, r.arg>>].err, res |-> ReverseOut[<<r.kind, r.arg>>]] }
    ELSE { [err |-> res.err, res |-> res] : res \in childrenOf(T, r.arg) }

InitConn ==
    /\ table = ConnTable
    /\ elevations = {}
    /\ googleAPIKey = ""
    /\ reqs = <<>>
    /\ provided = {}
    /\ call = Idle
    /\ db = FreePool

\* a handler calls reverse, childrenOf, detectLevel or latlngOf
Begin(kind, arg) ==
    /\ Len(reqs) < MaxConc
    /\ reqs' = Append(reqs, BeginCall(kind, arg))
    /\ UNCHANGED <<table, elevations, googleAPIKey, provided, call, db>>

\* s.db.Query / s.db.QueryRow asks the pool for the connection
Issue(i) ==
    /\ reqs[i].pc # "done"
    /\ ~reqs[i].issued
    /\ db' = connAcquire(db, i)
    /\ reqs' = [reqs EXCEPT ![i].issued = TRUE]
    /\ UNCHANGED <<table, elevations, googleAPIKey, provided, call>>

\* the statement runs on the connection: QueryRow(...).Scan closes its
\* cursor whatever it returns; a failed Query gives the connection back;
\* a successful Query leaves the rows cursor open
Exec(i) ==
    /\ reqs[i].issued
    /\ ~reqs[i].rows
    /\ Granted(i)
    /\ \E err \in DatasetErrs :
          CASE reqs[i].pc = "detectLevel" ->
                 /\ reqs' = [reqs EXCEPT ![i] = AfterProbe(reqs[i], table, err)]
                 /\ db' \in releaseConn(db, i)
            [] reqs[i].pc = "QueryRow" ->
                 /\ reqs' = [reqs EXCEPT ![i] =
                        Return(reqs[i],
                               IF err # Nil THEN [err |-> err]
                               ELSE [err |-> LatlngOut[<<"latlngOf", reqs[i].arg>>].err,
                                     res |-> LatlngOut[<<"latlngOf", reqs[i].arg>>]])]
                 /\ db' \in releaseConn(db, i)
            [] OTHER ->
                 IF err # Nil
                 THEN /\ reqs' = [reqs EXCEPT ![i] = Return(reqs[i], [err |-> err])]
                      /\ db' \in releaseConn(db, i)
                 ELSE /\ reqs' = [reqs EXCEPT ![i].rows = TRUE]
                      /\ db' = db
    /\ UNCHANGED <<table, elevations, googleAPIKey, provided, call>>

\* the rows loop of reverse / childrenOf up to its return; the deferred
\* rows.Close() gives the connection back
Rows(i) ==
    /\ reqs[i].rows
    /\ \E out \in LoopResults(reqs[i], table) \cup { [err |-> ErrStore] } :
          reqs' = [reqs EXCEPT ![i] = Return(reqs[i], out)]
    /\ db' \in releaseConn(db, i)
    /\ UNCHANGED <<table, elevations, googleAPIKey, provided, call>>

NextConn ==
    \/ \E c \in ConnCalls : Begin(c[1], c[2])
    \/ \E i \in 1..Len(reqs) : Issue(i)
    \/ \E i \in 1..Len(reqs) : Exec(i)
    \/ \E i \in 1..Len(reqs) : Rows(i)

\* a step of call i
StepOf(i) == i <= Len(reqs) /\ (Issue(i) \/ Exec(i) \/ Rows(i))

\* the goroutines are scheduled fairly: a call that can take a step, and
\* stays able to, takes one.  A statement of the call that holds the
\* connection is never blocked, and a blocked statement is handed the
\* connection and from then on stays able to run.
SpecConn ==
    /\ InitConn
    /\ [][NextConn]_vars
    /\ \A i \in 1..MaxConc : WF_vars(StepOf(i))

(***************************************************************************)
(* C11: the single dataset connection.                                     *)
(***************************************************************************)
\* C11: no call asks for the dataset connection while it holds it; while a
\* statement is blocked the connection is held by a call that is not
\* blocked (no deadlock); a call that has returned, on any path, holds no
\* connection; and under fair scheduling every call eventually returns
\* (from some point on every call that was begun has returned).
C11_NoSelfDeadlock ==
    /\ [](\A i \in Reqs : i \in db.waiting => db.holder # i)
    /\ [](db.waiting # {} => db.holder \in Reqs \ db.waiting)
    /\ [](\A i \in Reqs : Answered(i) => db.holder # i /\ i \notin db.waiting)
    /\ <>[](\A i \in Reqs : Answered(i))

\* a childrenOf call that has run detectLevel and now has the rows cursor
\* of its own query open, with a statement of a call that was under way
\* blocked behind it
C11_Witness ==
    \E i, j \in Reqs :
        /\ reqs[j].kind = "childrenOf" /\ reqs[j].rows /\ Granted(j)
        /\ i \in db.waiting /\ reqs[i].pc = "detectLevel" /\ reqs[i].lvl > 0

=============================================================================
